---- MODULE Spec2Model ----
(***************************************************************************)
(* Rollout engine of the VLN agent (r2r_src/agent.py, Seq2SeqAgent) with   *)
(* the dropout toggling of the encoder wrapper (r2r_src/model_PREVALENT.py)*)
(*                                                                         *)
(* Conventions:                                                            *)
(*  - batch positions and simulators are numbered 1..batch_size;           *)
(*    candidate / action indices are 0-based as in the Python code, so     *)
(*    candidate k of an observation is ob.candidate[k+1];                  *)
(*  - real quantities (distance, nDTW, reward) are integers in tenths;     *)
(*  - a trajectory path entry keeps the viewpoint id only (heading and     *)
(*    elevation are copied from the simulator and never read back).        *)
(***************************************************************************)
EXTENDS Integers, Sequences, FiniteSets, TLC

\* ---------------------------------------------------------------- bounds
batch_size == 2
episode_len == 2
NumViewpoints == 4
MaxInstrLen == 2
MaxCandidates == 2
TeacherViewpoints == 2
MaxHalfUnits == 8
NumKeys == 2
NumInstr == 3
MaxIters == 2
NumFeat == 2
EnsembleSize == 2
NumDirections == 2
MaxLogitUnit == 2

\* ------------------------------------------------------ program constants
padding_idx == 0
ignoreid == -100
NegInf == -1000
mc_dropout_samples == 10
GammaNum == 9
GammaDen == 10

None == "None"
Batch == 1..batch_size
Viewpoints == 1..NumViewpoints
Feedbacks == {"teacher", "argmax", "sample"}
ConfVals == {3, 9}

Max(a, b) == IF a >= b THEN a ELSE b
Min(a, b) == IF a <= b THEN a ELSE b

RECURSIVE MaxOf(_, _)
MaxOf(s, n) == IF n = 0 THEN 0 ELSE Max(s[n], MaxOf(s, n - 1))

\* ------------------------------------------- environment (env.R2RBatch)
\* A fixed navigation graph: viewpoint 1 is joined to every other
\* viewpoint and viewpoints 2 and 3 are joined to each other.
Adjacent(v, w) == v # w /\ (v = 1 \/ w = 1 \/ {v, w} = {2, 3})

RECURSIVE NeighbourSeq(_, _)
NeighbourSeq(v, w) ==
    IF w > NumViewpoints THEN <<>>
    ELSE (IF Adjacent(v, w) THEN <<w>> ELSE <<>>) \o NeighbourSeq(v, w + 1)

Candidates(v) == NeighbourSeq(v, 1)

EdgeLen == 20

Distance(v, g) == IF v = g THEN 0 ELSE IF Adjacent(v, g) THEN EdgeLen ELSE 2 * EdgeLen

\* next viewpoint on a shortest path to the goal (the viewpoint itself at the goal)
ShortestPathAction(v, g) == IF v = g THEN v ELSE IF Adjacent(v, g) THEN g ELSE 1

GtPath(s, g) == IF s = g THEN <<s>> ELSE IF Adjacent(s, g) THEN <<s, g>> ELSE <<s, 1, g>>

\* the items of the data set: a start and a goal viewpoint
Items == {[start |-> 2, goal |-> NumViewpoints],
          [start |-> NumViewpoints, goal |-> NumViewpoints]}

Ob(j, vp, it, enc) ==
    [instr_id |-> j, instr_encoding |-> enc[j], viewpoint |-> vp[j],
     candidate |-> Candidates(vp[j]),
     teacher |-> ShortestPathAction(vp[j], it[j].goal),
     distance |-> Distance(vp[j], it[j].goal),
     gt_path |-> GtPath(it[j].start, it[j].goal)]

get_obs(vp, it, enc) == [j \in Batch |-> Ob(j, vp, it, enc)]

\* utils.ndtw_initialize: a path-similarity score in [0, 1] (here in tenths)
\* of the executed path against the ground-truth path: the share of the
\* ground-truth viewpoints the path has visited.
Range(f) == {f[x] : x \in DOMAIN f}

ndtw_criterion(path, gt_path) ==
    (10 * Cardinality(Range(path) \cap Range(gt_path))) \div Len(gt_path)

\* instruction encodings: L tokens followed by padding, 1 <= L <= MaxInstrLen
Encoding(L) == [p \in 1..MaxInstrLen |-> IF p <= L THEN 1 ELSE padding_idx]
Encodings == {Encoding(L) : L \in 1..MaxInstrLen}

\* ----------------------------------------------------------- _sort_batch
\* np.argmax(seq == padding_idx): 0-based index of the first padding token, 0 if none
RECURSIVE FirstPad(_, _)
FirstPad(enc, p) ==
    IF p > Len(enc) THEN 0
    ELSE IF enc[p] = padding_idx THEN p - 1 ELSE FirstPad(enc, p + 1)

SeqLength(enc) == IF FirstPad(enc, 1) = 0 THEN Len(enc) ELSE FirstPad(enc, 1)

Perms(n) == {p \in [1..n -> 1..n] : \A a, b \in 1..n : a # b => p[a] # p[b]}

\* the permutations a descending sort of the lengths may return (ties in any order)
sort_batch(obs) ==
    {p \in Perms(batch_size) :
        \A a, b \in Batch : a < b =>
            SeqLength(obs[p[a]].instr_encoding) >= SeqLength(obs[p[b]].instr_encoding)}

Permute(obs, p) == [i \in Batch |-> obs[p[i]]]

\* ------------------------------------- VLNBERT dropout state (model_PREVALENT.py)
\* m = [dropout_training, mc_dropout]: the part of the module state the
\* forward passes read and write.
enable_dropout(m) == [m EXCEPT !.dropout_training = TRUE]

\* module-state effect of VLNBERT.forward (lines 68-69)
forward(m) == IF m.mc_dropout THEN enable_dropout(m) ELSE m

RECURSIVE mc_loop(_, _)
mc_loop(m, n) == IF n = 0 THEN m ELSE mc_loop(forward(m), n - 1)

monte_carlo_forward(m) ==
    LET m1 == enable_dropout([m EXCEPT !.mc_dropout = TRUE])
        m2 == mc_loop(m1, mc_dropout_samples)
    IN  [m2 EXCEPT !.mc_dropout = FALSE]

DropoutMode(m) == IF m.dropout_training THEN "train" ELSE "eval"

\* ------------------------------------------------- helpers of rollout
\* _candidate_variable: number of candidates + 1 for the end slot
candidate_variable(obs) == [i \in Batch |-> Len(obs[i].candidate) + 1]

\* logit.masked_fill_(length2mask(candidate_leng), -inf) on one row of n slots
masked_fill(row, leng, n) == [c \in 0..(n - 1) |-> IF c >= leng THEN NegInf ELSE row[c]]

\* logit.max(1): index of the first maximal entry of a row of n slots
RECURSIVE ArgmaxFrom(_, _, _, _)
ArgmaxFrom(row, n, c, best) ==
    IF c >= n THEN best
    ELSE ArgmaxFrom(row, n, c + 1, IF row[c] > row[best] THEN c ELSE best)

Argmax(row, n) == ArgmaxFrom(row, n, 1, 0)

\* ------------------------------------------------------ _teacher_action
\* the scan without break: the last matching candidate wins
RECURSIVE FirstMatch_last(_, _, _)
FirstMatch_last(cands, teacher, k) ==
    IF k >= Len(cands) THEN -1
    ELSE IF FirstMatch_last(cands, teacher, k + 1) # -1
         THEN FirstMatch_last(cands, teacher, k + 1)
         ELSE IF cands[k + 1] = teacher THEN k ELSE -1

\* the inner for/else: index of the first candidate equal to the teacher
\* viewpoint, -1 when the loop ends without break
RECURSIVE FirstMatch(_, _, _)
FirstMatch(cands, teacher, k) ==
    IF k >= Len(cands) THEN -1
    ELSE IF cands[k + 1] = teacher THEN k ELSE FirstMatch(cands, teacher, k + 1)

\* the assert of line 188 fails for this instance
TeacherAsserts(ob, e) ==
    ~e /\ FirstMatch(ob.candidate, ob.teacher, 0) = -1 /\ ob.teacher # ob.viewpoint

TeacherLabel(ob, e) ==
    IF e THEN ignoreid
    ELSE IF FirstMatch(ob.candidate, ob.teacher, 0) # -1
         THEN FirstMatch(ob.candidate, ob.teacher, 0)
         ELSE Len(ob.candidate)

teacher_action_fails(obs, e) == \E i \in DOMAIN obs : TeacherAsserts(obs[i], e[i])

teacher_action(obs, e) == [i \in DOMAIN obs |-> TeacherLabel(obs[i], e[i])]

\* ------------------------------------------------------ rollout pieces
\* the guard on ended dropped
StoreConfidence_unguarded(tr, e, c) == [tr EXCEPT !.confidence_scores = Append(@, c)]

\* lines 384-386: one score per instance that has not ended
StoreConfidence(tr, e, c) ==
    IF ~e THEN [tr EXCEPT !.confidence_scores = Append(@, c)] ELSE tr

\* the test on ended dropped
EnvAction_ignoresEnded(next_id, leng, e) ==
    IF next_id = leng - 1 \/ next_id = ignoreid THEN -1 ELSE next_id

\* lines 392-394: the <end> slot, the ignore id and ended instances become -1
EnvAction(next_id, leng, e) ==
    IF next_id = leng - 1 \/ next_id = ignoreid \/ e THEN -1 ELSE next_id

\* perm_idx not passed: position i drives simulator i
SimOf_unpermuted(pidx, i) == i

\* line 206: position i of the action vector drives simulator perm_idx[i]
SimOf(pidx, i) == pidx[i]

\* make_equiv_action, positions i..batch_size.  st = [vp, traj, calls, err].
\* Camera alignment and the move are calls on the one simulator SimOf(pidx, i);
\* the assert of line 222 compares the chosen candidate with what that
\* simulator can reach.
RECURSIVE make_equiv_action(_, _, _, _, _)
make_equiv_action(i, acts, pobs, pidx, st) ==
    IF i > batch_size THEN st
    ELSE IF acts[i] = -1 THEN make_equiv_action(i + 1, acts, pobs, pidx, st)
    ELSE IF acts[i] >= Len(pobs[i].candidate) THEN [st EXCEPT !.err = "IndexError"]
    ELSE LET idx == SimOf(pidx, i)
             dest == pobs[i].candidate[acts[i] + 1]
             nav == Candidates(st.vp[idx])
             called == [st EXCEPT !.calls = @ \cup {<<i, idx>>}]
         IN  IF acts[i] >= Len(nav) \/ nav[acts[i] + 1] # dest
             THEN [called EXCEPT !.err = "AssertionError"]
             ELSE LET moved == [st.vp EXCEPT ![idx] = dest] IN
                  make_equiv_action(i + 1, acts, pobs, pidx,
                      [vp |-> moved,
                       traj |-> [st.traj EXCEPT ![i].path = Append(@, moved[idx])],
                       calls |-> called.calls,
                       err |-> None])

\* the final else of the quantification dropped: a zero delta is not raised
RewardFails_silent(e, action, dist, ldist) == FALSE

\* lines 412-435, one instance; tenths
RewardFails(e, action, dist, ldist) == ~e /\ action # -1 /\ dist = ldist

\* the miss-the-target penalty applied to every move away from the goal
Reward_penaltyAlways(e, action, dist, ldist, ndtw, lndtw) ==
    IF e THEN 0
    ELSE IF action = -1 THEN (IF dist < 30 THEN 20 + ndtw * 2 ELSE -20)
    ELSE LET base == IF -(dist - ldist) > 0 THEN 10 + (ndtw - lndtw)
                     ELSE -10 + (ndtw - lndtw)
         IN  IF dist - ldist > 0 THEN base - (10 - ldist) * 2 ELSE base

Reward(e, action, dist, ldist, ndtw, lndtw) ==
    IF e THEN 0
    ELSE IF action = -1 THEN (IF dist < 30 THEN 20 + ndtw * 2 ELSE -20)
    ELSE LET base == IF -(dist - ldist) > 0 THEN 10 + (ndtw - lndtw)
                     ELSE -10 + (ndtw - lndtw)
         IN  IF ldist <= 10 /\ dist - ldist > 0 THEN base - (10 - ldist) * 2 ELSE base

\* lines 406, 414
Mask(e) == IF e THEN 0 ELSE 1

\* exclusive or in place of logical_or
UpdateEnded_xor(e, action) == e # (action = -1)

\* line 443
UpdateEnded(e, action) == e \/ action = -1

\* any() in place of all()
AllEnded_any(e) == \E i \in Batch : e[i]

\* line 446
AllEnded(e) == \A i \in Batch : e[i]

VARIABLES
    pc,                \* position of the caller / rollout
    err,               \* the exception that aborted the rollout, None otherwise
    feedback,          \* self.feedback
    train_ml,          \* rollout argument (None or a weight name)
    train_rl,          \* rollout argument after the override of line 260
    dropout_training,  \* nn.Dropout.training of the encoder's dropout modules
    mc_dropout,        \* VLNBERT.mc_dropout
    fwd_dropout,       \* dropout mode of the last canonical visual forward pass
    mc_passes,         \* stochastic passes run by the last monte_carlo_forward
    instr_encoding,    \* per simulator: the instruction of the batch item
    item,              \* per simulator: the batch item (start and goal viewpoint)
    sim_vp,            \* per simulator: current viewpoint
    sim_calls,         \* <<position, simulator>> pairs of the simulator calls of the last step
    perm_idx, perm_obs, traj, ended, last_dist, last_ndtw,
    t,                 \* number of executed steps
    stopped_at,        \* per position: the step on which it chose stop, -1 if none yet
    candidate_leng, a_t, cpu_a_t, target,
    rewards, masks, hidden_states, policy_log_probs, ml_loss,
    loss,              \* self.loss: the terms added so far
    returns,           \* the discounted returns r_ the A2C trainer used, per history step
    \* a call of _teacher_action on its own
    ta_pc,             \* "idle", "run", "returned" or "failed"
    ta_i,              \* position the loop of line 179 examines next
    ta_a,              \* labels assigned so far
    ta_ob, ta_e,       \* the observation and ended flag examined last
    \* the reward block of a step (lines 401-443) on its own, one instance
    rs_pc,             \* "idle", "run", "appended" or "failed"
    rs_in,             \* ended, action, dist, last_dist, ndtw, last_ndtw before the block
    rs_out,            \* what the block appends and the tracking state it leaves
    \* Seq2SeqAgent.load
    ld_pc,             \* "idle", "run", "returned" or "failed"
    ld_i,              \* position in all_tuple of the component recovered next
    ld_params,         \* per component: the model's parameters, key -> value
    ld_optim,          \* per component: the optimizer state
    ld_ckpt,           \* per component: the checkpoint's state_dict, key -> value
    ld_loadOptim,      \* args.loadOptim
    ld_notices,        \* the components for which the notice was printed
    \* BaseAgent.test
    ts_pc,             \* "idle", "call", "loop", "returned" or "aborted"
    ts_iters,          \* the iters argument: <<>> for None, <<n>> for the number n
    ts_i,              \* rollouts completed by the for loop of line 63
    ts_results,        \* self.results: instr_id -> (path, confidence_scores)
    ts_looped,         \* looped
    ts_data, ts_ix,    \* env.data in its current order and the batch cursor env.ix
    ts_first, ts_last, \* history: first and latest result rolled out per instr_id
    ts_repeats,        \* history: batches that held an instr_id rolled out before
    \* the encoder calls of one step (agent.py:313-340, 379) on one candidate
    vs_pc,             \* "idle", "step", "mc_call", "mc_loop", "forward" or "done"
    vs_argmax,         \* self.feedback == 'argmax'
    vs_featdropout,    \* args.featdropout > 0
    vs_m,              \* the module state [dropout_training, mc_dropout]
    vs_n,              \* stochastic passes done by monte_carlo_forward
    vs_cand,           \* the candidate_feat tensor of the step
    vs_received,       \* history: cand_feats as each forward call received it
    \* calculate_confidence on one batch instance
    cf_pc,             \* "idle", "run" or "returned"
    cf_logits,         \* the stacked logits: pass -> direction -> multiple of ln 2
    cf_out             \* the three terms of the combined confidence

vars == <<pc, err, feedback, train_ml, train_rl, dropout_training, mc_dropout,
          fwd_dropout, mc_passes, instr_encoding, item, sim_vp, sim_calls, perm_idx, perm_obs,
          traj, ended, last_dist, last_ndtw, t, stopped_at, candidate_leng, a_t,
          cpu_a_t, target, rewards, masks, hidden_states, policy_log_probs,
          ml_loss, loss, returns, ta_pc, ta_i, ta_a, ta_ob, ta_e, rs_pc, rs_in, rs_out,
          ld_pc, ld_i, ld_params, ld_optim, ld_ckpt, ld_loadOptim, ld_notices,
          ts_pc, ts_iters, ts_i, ts_results, ts_looped, ts_data, ts_ix,
          ts_first, ts_last, ts_repeats,
          vs_pc, vs_argmax, vs_featdropout, vs_m, vs_n, vs_cand, vs_received,
          cf_pc, cf_logits, cf_out>>

envVars == <<instr_encoding, item>>
modelVars == <<dropout_training, mc_dropout, fwd_dropout, mc_passes>>
stepVars == <<candidate_leng, a_t, cpu_a_t, target>>
histVars == <<rewards, masks, hidden_states, policy_log_probs, ml_loss>>
simVars == <<sim_vp, sim_calls>>
teacherVars == <<ta_pc, ta_i, ta_a, ta_ob, ta_e>>
batchVars == <<perm_idx, perm_obs, traj, ended, last_dist, last_ndtw, t, stopped_at>>
shaperVars == <<rs_pc, rs_in, rs_out>>
loadVars == <<ld_pc, ld_i, ld_params, ld_optim, ld_ckpt, ld_loadOptim, ld_notices>>
testVars == <<ts_pc, ts_iters, ts_i, ts_results, ts_looped, ts_data, ts_ix,
              ts_first, ts_last, ts_repeats>>
visualVars == <<vs_pc, vs_argmax, vs_featdropout, vs_m, vs_n, vs_cand, vs_received>>
confVars == <<cf_pc, cf_logits, cf_out>>
\* the variables of the components modelled on their own
aloneVars == <<teacherVars, shaperVars, loadVars, testVars, visualVars, confVars>>
rolloutVars == <<pc, err, feedback, train_ml, train_rl, modelVars, envVars, simVars,
                 batchVars, stepVars, histVars, loss, returns>>

\* State after construction of the agent over a loaded environment.
AgentInit ==
    /\ pc = "idle"
    /\ err = None
    /\ feedback = None
    /\ train_ml = None
    /\ train_rl = FALSE
    /\ dropout_training = TRUE          \* nn.Module is constructed in training mode
    /\ mc_dropout = FALSE
    /\ fwd_dropout = None
    /\ mc_passes = 0
    /\ instr_encoding \in [Batch -> Encodings]
    /\ item \in [Batch -> Items]
    /\ sim_vp = [j \in Batch |-> item[j].start]
    /\ sim_calls = {}
    /\ perm_idx = [i \in Batch |-> i]
    /\ perm_obs = <<>>
    /\ traj = <<>>
    /\ ended = [i \in Batch |-> FALSE]
    /\ last_dist = [i \in Batch |-> 0]
    /\ last_ndtw = [i \in Batch |-> 0]
    /\ t = 0
    /\ stopped_at = [i \in Batch |-> -1]
    /\ candidate_leng = <<>>
    /\ a_t = <<>>
    /\ cpu_a_t = <<>>
    /\ target = <<>>
    /\ rewards = <<>>
    /\ masks = <<>>
    /\ hidden_states = <<>>
    /\ policy_log_probs = <<>>
    /\ ml_loss = <<>>
    /\ loss = <<>>
    /\ returns = <<>>

TeacherIdle ==
    /\ ta_pc = "idle"
    /\ ta_i = 1
    /\ ta_a = <<>>
    /\ ta_ob = [candidate |-> <<>>, teacher |-> 1, viewpoint |-> 1]
    /\ ta_e = FALSE

ShaperNoInput ==
    [ended |-> FALSE, action |-> -1, dist |-> 0, last_dist |-> 0, ndtw |-> 0, last_ndtw |-> 0]

ShaperNoOutput ==
    [rewards |-> <<>>, masks |-> <<>>, last_dist |-> 0, last_ndtw |-> 0, ended |-> FALSE]

ShaperIdle ==
    /\ rs_pc = "idle"
    /\ rs_in = ShaperNoInput
    /\ rs_out = ShaperNoOutput

\* the components of all_tuple (lines 629-630), in order
all_tuple == <<"vln_bert", "critic">>
Components == {all_tuple[n] : n \in 1..Len(all_tuple)}

LoadIdle ==
    /\ ld_pc = "idle"
    /\ ld_i = 1
    /\ ld_params = [c \in Components |-> <<>>]
    /\ ld_optim = [c \in Components |-> "own"]
    /\ ld_ckpt = [c \in Components |-> <<>>]
    /\ ld_loadOptim = FALSE
    /\ ld_notices = {}

TestIdle ==
    /\ ts_pc = "idle"
    /\ ts_iters = <<>>
    /\ ts_i = 0
    /\ ts_results = <<>>
    /\ ts_looped = FALSE
    /\ ts_data = [n \in 1..NumInstr |-> n]
    /\ ts_ix = 0
    /\ ts_first = <<>>
    /\ ts_last = <<>>
    /\ ts_repeats = 0

VisualIdle ==
    /\ vs_pc = "idle"
    /\ vs_argmax = FALSE
    /\ vs_featdropout = FALSE
    /\ vs_m = [dropout_training |-> TRUE, mc_dropout |-> FALSE]
    /\ vs_n = 0
    /\ vs_cand = <<>>
    /\ vs_received = <<>>

ConfIdle ==
    /\ cf_pc = "idle"
    /\ cf_logits = <<>>
    /\ cf_out = <<>>

Init ==
    /\ AgentInit /\ TeacherIdle /\ ShaperIdle /\ LoadIdle /\ TestIdle /\ VisualIdle
    /\ ConfIdle

\* ------------------------------------------------ callers of rollout
\* Seq2SeqAgent.test / BaseAgent.test up to the first rollout call:
\* rollout() is called with its defaults train_ml=None, train_rl=True.
test(fb) ==
    /\ pc = "idle"
    /\ feedback' = fb
    /\ dropout_training' = FALSE            \* self.vln_bert.eval()
    /\ loss' = <<>>
    /\ train_ml' = None
    /\ train_rl' = TRUE
    /\ pc' = "rollout"
    /\ UNCHANGED <<aloneVars, err, mc_dropout, fwd_dropout, mc_passes, envVars, simVars,
                   batchVars, stepVars, histVars, returns>>

\* Seq2SeqAgent.train up to the first rollout call of an iteration.  With
\* feedback 'sample' the first rollout is the teacher rollout weighted by
\* args.ml_weight, unless that weight is 0.
train(fb, ml_weight_is_zero) ==
    /\ pc = "idle"
    /\ dropout_training' = TRUE             \* self.vln_bert.train()
    /\ loss' = <<>>
    /\ IF fb = "teacher"
         THEN feedback' = "teacher" /\ train_ml' = "teacher_weight" /\ train_rl' = FALSE
         ELSE IF ml_weight_is_zero
           THEN feedback' = "sample" /\ train_ml' = None /\ train_rl' = TRUE
           ELSE feedback' = "teacher" /\ train_ml' = "ml_weight" /\ train_rl' = FALSE
    /\ pc' = "rollout"
    /\ UNCHANGED <<aloneVars, err, mc_dropout, fwd_dropout, mc_passes, envVars, simVars,
                   batchVars, stepVars, histVars, returns>>

\* ------------------------------------------------ rollout, lines 259-309
\* env.reset() puts every simulator on the start viewpoint of its item.
rollout_begin ==
    /\ pc = "rollout"
    /\ train_rl' = IF feedback \in {"teacher", "argmax"} THEN FALSE ELSE train_rl
    /\ LET start == [j \in Batch |-> item[j].start]
           obs == get_obs(start, item, instr_encoding)
       IN  /\ sim_vp' = start
           /\ \E p \in sort_batch(obs) :
                /\ perm_idx' = p
                /\ perm_obs' = Permute(obs, p)
                /\ traj' = [i \in Batch |->
                              [instr_id |-> obs[p[i]].instr_id,
                               path |-> <<obs[p[i]].viewpoint>>,
                               confidence_scores |-> <<>>]]
                /\ last_dist' = [i \in Batch |-> obs[p[i]].distance]
                /\ last_ndtw' = [i \in Batch |->
                       ndtw_criterion(<<obs[p[i]].viewpoint>>, obs[p[i]].gt_path)]
    /\ ended' = [i \in Batch |-> FALSE]
    /\ stopped_at' = [i \in Batch |-> -1]
    /\ sim_calls' = {}
    /\ t' = 0
    /\ rewards' = <<>>
    /\ hidden_states' = <<>>
    /\ policy_log_probs' = <<>>
    /\ masks' = <<>>
    /\ ml_loss' = <<>>
    /\ returns' = <<>>
    /\ pc' = "loop"
    /\ UNCHANGED <<aloneVars, err, feedback, train_ml, modelVars, envVars, stepVars, loss>>

\* ------------------------------------------------ rollout, lines 311-447
\* The encoder is opaque: its logits for one instance are any row of n
\* slots that is flat or has a single raised slot.
LogitRows(n) ==
    {[c \in 0..(n - 1) |-> 0]} \cup
    {[c \in 0..(n - 1) |-> IF c = h THEN 1 ELSE 0] : h \in 0..(n - 1)}

\* One iteration of the step loop.  logit is the encoder's output of the
\* canonical pass and conf the output of calculate_confidence over the
\* stochastic passes: both are opaque here.
step ==
    /\ pc = "loop"
    /\ t < episode_len
    /\ \E leng \in {candidate_variable(perm_obs)} :
       \E n \in {MaxOf(leng, batch_size)} :
       \E m1 \in {IF feedback = "argmax"
                    THEN monte_carlo_forward([dropout_training |-> dropout_training,
                                              mc_dropout |-> mc_dropout])
                    ELSE [dropout_training |-> dropout_training,
                          mc_dropout |-> mc_dropout]} :
       \E m2 \in {forward(m1)} :
       \E logit \in [Batch -> LogitRows(n)],
          conf \in (IF feedback = "argmax" THEN [Batch -> ConfVals]
                    ELSE {[i \in Batch |-> 0]}) :
       \E a \in {[i \in Batch |->
                    Argmax(IF feedback = "argmax"
                             THEN masked_fill(logit[i], leng[i], n)
                             ELSE logit[i], n)]} :
       \E cpu \in {[i \in Batch |-> EnvAction(a[i], leng[i], ended[i])]} :
       \E mea \in {make_equiv_action(1, cpu, perm_obs, perm_idx,
                     [vp |-> sim_vp,
                      traj |-> [i \in Batch |->
                                  StoreConfidence(traj[i], ended[i], conf[i])],
                      calls |-> {}, err |-> None])} :
       \E obs2 \in {Permute(get_obs(mea.vp, item, instr_encoding), perm_idx)} :
       LET isArgmax == feedback = "argmax"
           teacherFails == isArgmax /\ teacher_action_fails(perm_obs, ended)
           tgt == IF isArgmax /\ ~teacherFails THEN teacher_action(perm_obs, ended)
                  ELSE target
           dist == [i \in Batch |-> obs2[i].distance]
           ndtw_score == [i \in Batch |->
                            ndtw_criterion(mea.traj[i].path, obs2[i].gt_path)]
           rewardFails == train_rl /\ \E i \in Batch :
                              RewardFails(ended[i], cpu[i], dist[i], last_dist[i])
           reward == [i \in Batch |->
                        Reward(ended[i], cpu[i], dist[i], last_dist[i],
                               ndtw_score[i], last_ndtw[i])]
           ended2 == [i \in Batch |-> UpdateEnded(ended[i], cpu[i])]
           failure == IF teacherFails THEN "AssertionError"
                      ELSE IF mea.err # None THEN mea.err
                      ELSE IF rewardFails THEN "NameError"
                      ELSE None
           moved == ~teacherFails
           done == failure = None
       IN
       /\ dropout_training' = m2.dropout_training
       /\ mc_dropout' = m2.mc_dropout
       /\ mc_passes' = IF isArgmax THEN mc_dropout_samples ELSE mc_passes
       /\ fwd_dropout' = DropoutMode(m1)
       /\ candidate_leng' = leng
       /\ hidden_states' = IF isArgmax THEN Append(hidden_states, t) ELSE hidden_states
       /\ target' = tgt
       /\ ml_loss' = IF isArgmax /\ moved THEN Append(ml_loss, tgt) ELSE ml_loss
       /\ a_t' = IF moved THEN a ELSE a_t
       /\ policy_log_probs' = IF isArgmax /\ moved THEN Append(policy_log_probs, a)
                              ELSE policy_log_probs
       /\ cpu_a_t' = IF moved THEN cpu ELSE cpu_a_t
       /\ traj' = IF moved THEN mea.traj ELSE traj
       /\ sim_vp' = IF moved THEN mea.vp ELSE sim_vp
       /\ sim_calls' = IF moved THEN mea.calls ELSE {}
       /\ perm_obs' = IF moved /\ mea.err = None THEN obs2 ELSE perm_obs
       /\ rewards' = IF done /\ train_rl THEN Append(rewards, reward) ELSE rewards
       /\ masks' = IF done /\ train_rl
                     THEN Append(masks, [i \in Batch |-> Mask(ended[i])]) ELSE masks
       /\ last_dist' = IF done /\ train_rl THEN dist ELSE last_dist
       /\ last_ndtw' = IF done /\ train_rl THEN ndtw_score ELSE last_ndtw
       /\ ended' = IF done THEN ended2 ELSE ended
       /\ stopped_at' = IF done
                          THEN [i \in Batch |->
                                  IF ~ended[i] /\ ended2[i] THEN t ELSE stopped_at[i]]
                          ELSE stopped_at
       /\ t' = IF done THEN t + 1 ELSE t
       /\ err' = failure
       /\ pc' = IF ~done THEN "aborted"
                ELSE IF AllEnded(ended2) \/ t + 1 >= episode_len THEN "post"
                ELSE "loop"
    /\ UNCHANGED <<aloneVars, feedback, train_ml, train_rl, envVars, perm_idx, loss,
                   returns>>

\* ------------------------------------------------ rollout, lines 449-509
\* what VLNBERT.forward returns in visual mode (model_PREVALENT.py:95)
visual_outputs == <<"state_proj", "logit", "confidence_score">>

\* unpacking a tuple into n targets raises ValueError unless it has n values
unpack_fails(n, values) == Len(values) # n

\* entropys is created empty (line 308) and never appended to
entropys == <<>>

\* the critic's value of the final state, opaque (tenths)
CriticVals == {0, 5}

\* a return is a fraction [num, den] of tenths; line 484 for one instance:
\* discount_reward * args.gamma + rewards[t]
discount_step(G, r) ==
    [num |-> G.num * GammaNum + r * G.den * GammaDen, den |-> G.den * GammaDen]

\* the value of discount_reward[i] at history step h (1-based) of the
\* reverse walk of lines 483-484 that starts from boot
RECURSIVE discount_reward(_, _, _, _)
discount_reward(rs, i, h, boot) ==
    IF h > Len(rs) THEN [num |-> boot, den |-> 1]
    ELSE discount_step(discount_reward(rs, i, h + 1, boot), rs[h][i])

\* With RL enabled the final state is encoded for the critic; line 469
\* unpacks the result of the visual forward pass into two targets.  Past
\* it, the trainer walks the history in reverse, indexing hidden_states,
\* policy_log_probs and (feedback 'sample') entropys at every step.
a2c ==
    /\ pc = "post"
    /\ train_rl
    /\ LET m0 == [dropout_training |-> dropout_training, mc_dropout |-> mc_dropout]
           m1 == forward(m0)
       IN  /\ dropout_training' = m1.dropout_training
           /\ mc_dropout' = m1.mc_dropout
           /\ fwd_dropout' = DropoutMode(m0)
    /\ candidate_leng' = candidate_variable(perm_obs)
    /\ IF unpack_fails(2, visual_outputs)
         THEN /\ err' = "ValueError"
              /\ pc' = "aborted"
              /\ UNCHANGED <<returns, loss>>
         ELSE \E last_value \in [Batch -> CriticVals] :
                LET boot == [i \in Batch |-> IF ~ended[i] THEN last_value[i] ELSE 0]
                    T == Len(rewards)
                    r_(h) == [i \in Batch |-> discount_reward(rewards, i, h, boot[i])]
                IN  IF T > 0 /\ (\/ Len(hidden_states) < T
                                 \/ Len(policy_log_probs) < T
                                 \/ (feedback = "sample" /\ Len(entropys) < T))
                      THEN /\ returns' = <<r_(T)>>
                           /\ err' = "IndexError"
                           /\ pc' = "aborted"
                           /\ loss' = loss
                      ELSE /\ returns' = [h \in 1..T |-> r_(h)]
                           /\ loss' = Append(loss, [weight |-> "rl", terms |-> returns'])
                           /\ err' = err
                           /\ pc' = "tail"
    /\ UNCHANGED <<aloneVars, feedback, train_ml, train_rl, mc_passes, envVars, simVars,
                   batchVars, a_t, cpu_a_t, target, histVars>>

\* ------------------------------------------------ rollout, lines 511-521
\* ml_loss is still the Python float 0. when no cross-entropy term was
\* added to it, and a float has no .item().
finish ==
    /\ (pc = "post" /\ ~train_rl) \/ pc = "tail"
    /\ IF train_ml # None
         THEN /\ loss' = Append(loss, [weight |-> train_ml, terms |-> ml_loss])
              /\ IF ml_loss = <<>>
                   THEN err' = "AttributeError" /\ pc' = "aborted"
                   ELSE err' = err /\ pc' = "returned"
         ELSE /\ loss' = loss
              /\ err' = err
              /\ pc' = "returned"
    /\ UNCHANGED <<aloneVars, feedback, train_ml, train_rl, modelVars, envVars, simVars,
                   batchVars, stepVars, histVars, returns>>

Next ==
    \/ \E fb \in Feedbacks : test(fb)
    \/ \E fb \in {"teacher", "sample"}, z \in BOOLEAN : train(fb, z)
    \/ rollout_begin
    \/ step
    \/ a2c
    \/ finish

Spec == Init /\ [][Next]_vars

\* every enabled step of the synchronous program is eventually taken
FairSpec == Spec /\ WF_vars(Next)

\* ------------------------------------------------ _teacher_action alone
\* The function applied to arbitrary observations: candidate lists of up to
\* MaxCandidates viewpoint ids (repetitions allowed), any teacher viewpoint,
\* any current viewpoint, any ended flag.
TeacherIds == 1..TeacherViewpoints
TeacherObs ==
    {[candidate |-> c, teacher |-> tv, viewpoint |-> v] :
        c \in UNION {[1..k -> TeacherIds] : k \in 0..MaxCandidates},
        tv \in TeacherIds, v \in TeacherIds}

TeacherInit ==
    /\ AgentInit
    /\ item = [j \in Batch |-> [start |-> 2, goal |-> NumViewpoints]]
    /\ instr_encoding = [j \in Batch |-> Encoding(1)]
    /\ ta_pc = "run"
    /\ ta_i = 1
    /\ ta_a = <<>>
    /\ ta_ob = [candidate |-> <<>>, teacher |-> 1, viewpoint |-> 1]
    /\ ta_e = FALSE
    /\ ShaperIdle
    /\ LoadIdle
    /\ TestIdle
    /\ VisualIdle
    /\ ConfIdle

\* one iteration of the loop of lines 179-189
teacher_iter ==
    /\ ta_pc = "run"
    /\ ta_i <= batch_size
    /\ \E ob \in TeacherObs, e \in BOOLEAN :
         /\ ta_ob' = ob
         /\ ta_e' = e
         /\ IF TeacherAsserts(ob, e)
              THEN ta_pc' = "failed" /\ UNCHANGED <<ta_i, ta_a>>
              ELSE /\ ta_a' = Append(ta_a, TeacherLabel(ob, e))
                   /\ ta_i' = ta_i + 1
                   /\ ta_pc' = ta_pc
    /\ UNCHANGED <<rolloutVars, shaperVars, loadVars, testVars, visualVars, confVars>>

\* line 190
teacher_return ==
    /\ ta_pc = "run"
    /\ ta_i > batch_size
    /\ ta_pc' = "returned"
    /\ UNCHANGED <<rolloutVars, shaperVars, loadVars, testVars, visualVars, confVars,
                   ta_i, ta_a, ta_ob, ta_e>>

TeacherNext == teacher_iter \/ teacher_return

TeacherSpec == TeacherInit /\ [][TeacherNext]_vars

\* ------------------------------------------------ the reward block alone
\* Lines 401-443 for one instance of a step with RL enabled, applied to
\* arbitrary tracking state: distances in steps of 0.5 up to MaxHalfUnits
\* halves, nDTW scores 0, 0.5, 0.7 and 1 (tenths), a stop or a move action.
ShaperDists == {5 * h : h \in 0..MaxHalfUnits}
ShaperNdtws == {0, 5, 7, 10}
ShaperActions == {-1, 0, 1}

ShaperInit ==
    /\ AgentInit
    /\ item = [j \in Batch |-> [start |-> 2, goal |-> NumViewpoints]]
    /\ instr_encoding = [j \in Batch |-> Encoding(1)]
    /\ TeacherIdle
    /\ rs_pc = "run"
    /\ rs_in = ShaperNoInput
    /\ rs_out = ShaperNoOutput
    /\ LoadIdle
    /\ TestIdle
    /\ VisualIdle
    /\ ConfIdle

reward_block ==
    /\ rs_pc = "run"
    /\ \E e \in BOOLEAN, action \in ShaperActions, dist \in ShaperDists,
          ldist \in ShaperDists, ndtw \in ShaperNdtws, lndtw \in ShaperNdtws :
         /\ rs_in' = [ended |-> e, action |-> action, dist |-> dist,
                      last_dist |-> ldist, ndtw |-> ndtw, last_ndtw |-> lndtw]
         /\ IF RewardFails(e, action, dist, ldist)
              THEN /\ rs_pc' = "failed"
                   /\ rs_out' = [rewards |-> <<>>, masks |-> <<>>, last_dist |-> ldist,
                                 last_ndtw |-> lndtw, ended |-> e]
              ELSE /\ rs_pc' = "appended"
                   /\ rs_out' = [rewards |-> <<Reward(e, action, dist, ldist, ndtw, lndtw)>>,
                                 masks |-> <<Mask(e)>>,
                                 last_dist |-> dist, last_ndtw |-> ndtw,
                                 ended |-> UpdateEnded(e, action)]
    /\ UNCHANGED <<rolloutVars, teacherVars, loadVars, testVars, visualVars, confVars>>

ShaperNext == reward_block

ShaperSpec == ShaperInit /\ [][ShaperNext]_vars

\* ------------------------------------------------ Seq2SeqAgent.load
\* A state_dict is a function from parameter keys to values; the value of
\* a parameter is where it comes from ("model" or "checkpoint").
Keys == 1..NumKeys
StateDicts(S, v) == {[k \in K |-> v] : K \in S}

\* dict.update (line 625)
dict_update(state, other) ==
    [k \in DOMAIN state \cup DOMAIN other |->
        IF k \in DOMAIN other THEN other[k] ELSE state[k]]

\* nn.Module.load_state_dict with its default strict=True (line 626): the
\* parameters whose key is in the given dict are copied from it, and the
\* call raises RuntimeError when a key of the module is missing from the
\* dict or the dict has a key the module lacks.
load_state_dict_fails(params, state) == DOMAIN state # DOMAIN params

load_state_dict(params, state) ==
    [k \in DOMAIN params |-> IF k \in DOMAIN state THEN state[k] ELSE params[k]]

LoadInit ==
    /\ AgentInit
    /\ item = [j \in Batch |-> [start |-> 2, goal |-> NumViewpoints]]
    /\ instr_encoding = [j \in Batch |-> Encoding(1)]
    /\ TeacherIdle
    /\ ShaperIdle
    /\ ld_pc = "run"
    /\ ld_i = 1
    /\ ld_params \in [Components -> StateDicts(SUBSET Keys \ {{}}, "model")]
    /\ ld_optim = [c \in Components |-> "own"]
    /\ ld_ckpt \in [Components -> StateDicts(SUBSET Keys, "checkpoint")]
    /\ ld_loadOptim \in BOOLEAN
    /\ ld_notices = {}
    /\ TestIdle
    /\ VisualIdle
    /\ ConfIdle

\* recover_state (lines 619-628) for the next component of all_tuple
recover_state ==
    /\ ld_pc = "run"
    /\ ld_i <= Len(all_tuple)
    /\ LET name == all_tuple[ld_i]
           state == ld_params[name]
           merged == dict_update(state, ld_ckpt[name])
       IN  /\ ld_notices' = IF DOMAIN state # DOMAIN ld_ckpt[name]
                               THEN ld_notices \cup {name} ELSE ld_notices
           /\ ld_params' = [ld_params EXCEPT ![name] = load_state_dict(@, merged)]
           /\ IF load_state_dict_fails(state, merged)
                THEN ld_pc' = "failed" /\ UNCHANGED <<ld_i, ld_optim>>
                ELSE /\ ld_optim' = IF ld_loadOptim
                                       THEN [ld_optim EXCEPT ![name] = "checkpoint"]
                                       ELSE ld_optim
                     /\ ld_i' = ld_i + 1
                     /\ ld_pc' = ld_pc
    /\ UNCHANGED <<rolloutVars, teacherVars, shaperVars, testVars, visualVars, confVars,
                   ld_ckpt, ld_loadOptim>>

\* line 633: the stored epoch is returned once both components are recovered
load_return ==
    /\ ld_pc = "run"
    /\ ld_i > Len(all_tuple)
    /\ ld_pc' = "returned"
    /\ UNCHANGED <<rolloutVars, teacherVars, shaperVars, testVars, visualVars, confVars,
                   ld_i, ld_params, ld_optim, ld_ckpt, ld_loadOptim, ld_notices>>

LoadNext == recover_state \/ load_return

LoadSpec == LoadInit /\ [][LoadNext]_vars

\* ------------------------------------------------ BaseAgent.test
\* The environment keeps the instructions in a list env.data with a cursor
\* env.ix: a batch is the next batch_size entries; when fewer are left the
\* list may be reordered and the batch is filled up from its front.
Reorderings(data) == {[n \in 1..Len(data) |-> data[q[n]]] : q \in Perms(Len(data))}

next_batch(data, ix) ==
    LET head == SubSeq(data, ix + 1, Min(ix + batch_size, Len(data)))
        rest == batch_size - Len(head)
    IN  IF rest = 0
          THEN {[batch |-> head, data |-> data, ix |-> ix + batch_size]}
          ELSE {[batch |-> head \o SubSeq(d, 1, rest), data |-> d, ix |-> rest] :
                   d \in Reorderings(data)}

\* what a returned trajectory carries besides its instr_id: the pair
\* (path, confidence_scores), opaque to the loop
Outcomes == {"p", "q"}

Put(d, k, v) == [x \in DOMAIN d \cup {k} |-> IF x = k THEN v ELSE d[x]]

\* the else of line 72 dropped: a repeated instruction is stored again
store_full_round_overwrite(st, id, out) ==
    [results |-> Put(st.results, id, out),
     looped |-> st.looped \/ id \in DOMAIN st.results]

\* lines 70-74, one trajectory; st = [results, looped]
store_full_round(st, id, out) ==
    IF id \in DOMAIN st.results
      THEN [st EXCEPT !.looped = TRUE]
      ELSE [st EXCEPT !.results = Put(@, id, out)]

\* line 66, one trajectory
store_iters(st, id, out) == [st EXCEPT !.results = Put(@, id, out)]

\* the for loops of lines 64 and 69 over trajectories n.. of a rollout
RECURSIVE store_all(_, _, _, _, _)
store_all(st, ids, outs, n, full) ==
    IF n > Len(ids) THEN st
    ELSE store_all(IF full THEN store_full_round(st, ids[n], outs[n])
                   ELSE store_iters(st, ids[n], outs[n]),
                   ids, outs, n + 1, full)

\* history of what was rolled out: first and latest outcome per instr_id
RECURSIVE record_all(_, _, _, _)
record_all(h, ids, outs, n) ==
    IF n > Len(ids) THEN h
    ELSE record_all([first |-> IF ids[n] \in DOMAIN h.first THEN h.first
                               ELSE Put(h.first, ids[n], outs[n]),
                     last |-> Put(h.last, ids[n], outs[n])],
                    ids, outs, n + 1)

HasRepeat(seen, ids) ==
    \/ \E n \in 1..Len(ids) : ids[n] \in seen
    \/ \E n, k \in 1..Len(ids) : n # k /\ ids[n] = ids[k]

TestInit ==
    /\ AgentInit
    /\ item = [j \in Batch |-> [start |-> 2, goal |-> NumViewpoints]]
    /\ instr_encoding = [j \in Batch |-> Encoding(1)]
    /\ TeacherIdle
    /\ ShaperIdle
    /\ LoadIdle
    /\ ts_pc = "call"
    /\ ts_iters = <<>>
    /\ ts_i = 0
    /\ ts_results \in {<<>>, [n \in {1} |-> "q"]}     \* left by an earlier call
    /\ ts_looped = FALSE
    /\ ts_data = [n \in 1..NumInstr |-> n]
    /\ ts_ix \in 0..NumInstr
    /\ ts_first = <<>>
    /\ ts_last = <<>>
    /\ ts_repeats = 0
    /\ VisualIdle
    /\ ConfIdle

\* lines 55-60: reset_epoch shuffles the data iff iters is given
base_test ==
    /\ ts_pc = "call"
    /\ \E iters \in {<<>>} \cup {<<n>> : n \in 0..MaxIters} :
         /\ ts_iters' = iters
         /\ ts_data' \in (IF iters # <<>> THEN Reorderings(ts_data) ELSE {ts_data})
    /\ ts_ix' = 0
    /\ ts_results' = <<>>
    /\ ts_looped' = FALSE
    /\ ts_i' = 0
    /\ ts_pc' = "loop"
    /\ UNCHANGED <<rolloutVars, teacherVars, shaperVars, loadVars, visualVars, confVars,
                   ts_first, ts_last, ts_repeats>>

\* one rollout call and the loop over its trajectories (lines 63-66 or
\* 68-76).  The rollout resets the environment to the next batch and either
\* returns one trajectory per batch entry or raises.
test_rollout ==
    /\ ts_pc = "loop"
    /\ ts_iters # <<>> => ts_i < ts_iters[1]
    /\ \E nb \in next_batch(ts_data, ts_ix), outs \in [1..batch_size -> Outcomes],
          raised \in BOOLEAN :
         /\ ts_data' = nb.data
         /\ ts_ix' = nb.ix
         /\ IF raised
              THEN /\ ts_pc' = "aborted"
                   /\ UNCHANGED <<ts_i, ts_results, ts_looped, ts_first, ts_last, ts_repeats>>
              ELSE LET st == store_all([results |-> ts_results, looped |-> ts_looped],
                                       nb.batch, outs, 1, ts_iters = <<>>)
                       h == record_all([first |-> ts_first, last |-> ts_last],
                                       nb.batch, outs, 1)
                   IN  /\ ts_results' = st.results
                       /\ ts_looped' = st.looped
                       /\ ts_first' = h.first
                       /\ ts_last' = h.last
                       /\ ts_repeats' = IF HasRepeat(DOMAIN ts_first, nb.batch)
                                           THEN ts_repeats + 1 ELSE ts_repeats
                       /\ ts_i' = IF ts_iters # <<>> THEN ts_i + 1 ELSE ts_i
                       /\ ts_pc' = IF ts_iters = <<>> /\ st.looped THEN "returned" ELSE "loop"
    /\ UNCHANGED <<rolloutVars, teacherVars, shaperVars, loadVars, visualVars, confVars,
                   ts_iters>>

\* the for loop of line 63 is exhausted
test_return ==
    /\ ts_pc = "loop"
    /\ ts_iters # <<>>
    /\ ts_i >= ts_iters[1]
    /\ ts_pc' = "returned"
    /\ UNCHANGED <<rolloutVars, teacherVars, shaperVars, loadVars, visualVars, confVars,
                   ts_iters, ts_i, ts_results, ts_looped, ts_data, ts_ix,
                   ts_first, ts_last, ts_repeats>>

TestNext == base_test \/ test_rollout \/ test_return

TestSpec == TestInit /\ [][TestNext]_vars

\* ------------------------------------------------ the encoder calls of a step
\* The candidate_feat tensor of one candidate: NumFeat image features
\* followed by one angle feature.  An element is 0 as assembled, k > 0 after
\* k rescalings by 1/(1-p), and -1 once it was zeroed.
FeatIdx == 1..(NumFeat + 1)
AssembledFeat == [e \in FeatIdx |-> 0]

\* nn.Dropout on one element: identity unless the module is in training
\* mode with p > 0; then the element is zeroed or rescaled
drop_elem(v, keep) == IF ~keep \/ v = -1 THEN -1 ELSE v + 1

drop_env(v, m, keep) ==
    IF m.dropout_training /\ vs_featdropout THEN drop_elem(v, keep) ELSE v

\* model_PREVALENT.py:83: the image features of the caller's tensor are
\* overwritten in place with the output of drop_env
forward_cand_feats(cand, m, keep) ==
    [e \in FeatIdx |-> IF e <= NumFeat THEN drop_env(cand[e], m, keep[e]) ELSE cand[e]]

VisualInit ==
    /\ AgentInit
    /\ item = [j \in Batch |-> [start |-> 2, goal |-> NumViewpoints]]
    /\ instr_encoding = [j \in Batch |-> Encoding(1)]
    /\ TeacherIdle
    /\ ShaperIdle
    /\ LoadIdle
    /\ TestIdle
    /\ vs_pc = "step"
    /\ vs_argmax \in BOOLEAN
    /\ vs_featdropout \in BOOLEAN
    /\ vs_m \in {[dropout_training |-> b, mc_dropout |-> FALSE] : b \in BOOLEAN}
    /\ vs_n = 0
    /\ vs_cand = <<>>
    /\ vs_received = <<>>
    /\ ConfIdle

\* agent.py:313
visual_get_input_feat ==
    /\ vs_pc = "step"
    /\ vs_cand' = AssembledFeat
    /\ vs_pc' = IF vs_argmax THEN "mc_call" ELSE "forward"
    /\ UNCHANGED <<rolloutVars, teacherVars, shaperVars, loadVars, testVars, confVars,
                   vs_argmax, vs_featdropout, vs_m, vs_n, vs_received>>

\* model_PREVALENT.py:50-53
visual_mc_enter ==
    /\ vs_pc = "mc_call"
    /\ vs_m' = enable_dropout([vs_m EXCEPT !.mc_dropout = TRUE])
    /\ vs_n' = 0
    /\ vs_pc' = "mc_loop"
    /\ UNCHANGED <<rolloutVars, teacherVars, shaperVars, loadVars, testVars, confVars,
                   vs_argmax, vs_featdropout, vs_cand, vs_received>>

\* one VLNBERT.forward call in visual mode (model_PREVALENT.py:68-95) on
\* the tensor the caller passed
visual_forward_call ==
    \E keep \in [1..NumFeat -> BOOLEAN] :
       /\ vs_m' = forward(vs_m)
       /\ vs_received' = Append(vs_received, vs_cand)
       /\ vs_cand' = forward_cand_feats(vs_cand, forward(vs_m), keep)

\* model_PREVALENT.py:55-59, one stochastic pass
visual_mc_pass ==
    /\ vs_pc = "mc_loop"
    /\ vs_n < mc_dropout_samples
    /\ visual_forward_call
    /\ vs_n' = vs_n + 1
    /\ UNCHANGED <<rolloutVars, teacherVars, shaperVars, loadVars, testVars, confVars,
                   vs_pc, vs_argmax, vs_featdropout>>

\* model_PREVALENT.py:61-62
visual_mc_exit ==
    /\ vs_pc = "mc_loop"
    /\ vs_n >= mc_dropout_samples
    /\ vs_m' = [vs_m EXCEPT !.mc_dropout = FALSE]
    /\ vs_pc' = "forward"
    /\ UNCHANGED <<rolloutVars, teacherVars, shaperVars, loadVars, testVars, confVars,
                   vs_argmax, vs_featdropout, vs_n, vs_cand, vs_received>>

\* the canonical pass, agent.py:339 (argmax) or 379 (teacher, sample)
visual_forward ==
    /\ vs_pc = "forward"
    /\ visual_forward_call
    /\ vs_pc' = "done"
    /\ UNCHANGED <<rolloutVars, teacherVars, shaperVars, loadVars, testVars, confVars,
                   vs_argmax, vs_featdropout, vs_n>>

VisualNext ==
    \/ visual_get_input_feat
    \/ visual_mc_enter
    \/ visual_mc_pass
    \/ visual_mc_exit
    \/ visual_forward

VisualSpec == VisualInit /\ [][VisualNext]_vars

\* ------------------------------------------------ calculate_confidence
\* One batch instance.  A logit is k * ln 2 for a natural number k that is
\* a multiple of the ensemble size, so that exp(logit) = 2^k and the mean
\* over the passes is again such a multiple; probabilities and variances
\* are then exact fractions [num, den] (the variance in units of (ln 2)^2).
Passes == 1..EnsembleSize
Directions == 1..NumDirections
LogitUnits == {EnsembleSize * u : u \in 0..MaxLogitUnit}

RECURSIVE Exp2(_)
Exp2(k) == IF k = 0 THEN 1 ELSE 2 * Exp2(k - 1)

RECURSIVE SumTo(_, _)
SumTo(f, n) == IF n = 0 THEN 0 ELSE f[n] + SumTo(f, n - 1)

FracLess(a, b) == a.num * b.den < b.num * a.den

RECURSIVE MaxFrac(_, _)
MaxFrac(f, n) ==
    IF n = 1 THEN f[1]
    ELSE IF FracLess(MaxFrac(f, n - 1), f[n]) THEN f[n] ELSE MaxFrac(f, n - 1)

\* F.softmax(row, dim=-1)
softmax(row) ==
    [c \in Directions |->
        [num |-> Exp2(row[c]),
         den |-> SumTo([d \in Directions |-> Exp2(row[d])], NumDirections)]]

\* logits.mean(dim=0), line 231
mean_over_passes(logits) ==
    [c \in Directions |->
        SumTo([q \in Passes |-> logits[q][c]], EnsembleSize) \div EnsembleSize]

\* logits.var(dim=0), line 232: the unbiased sample variance
var_over_passes(logits) ==
    [c \in Directions |->
        [num |-> SumTo([q \in Passes |->
                          (logits[q][c] - mean_over_passes(logits)[c])
                          * (logits[q][c] - mean_over_passes(logits)[c])], EnsembleSize),
         den |-> EnsembleSize - 1]]

\* lines 231-248.  The result is the mean of the three terms
\*   1 - H(entropy_of) / log(directions),  1 - uncertainty,  agreement
\* and is kept as its three ingredients, the entropy H not being a fraction.
calculate_confidence(logits) ==
    LET mean_logits == mean_over_passes(logits)
        var_logits == var_over_passes(logits)
        mean_probs == softmax(mean_logits)
    IN  [entropy_of |-> mean_probs,
         directions |-> NumDirections,
         uncertainty |-> [num |-> SumTo([c \in Directions |-> var_logits[c].num],
                                        NumDirections),
                          den |-> (EnsembleSize - 1) * NumDirections],
         agreement |-> MaxFrac(mean_probs, NumDirections)]

ConfInit ==
    /\ AgentInit
    /\ item = [j \in Batch |-> [start |-> 2, goal |-> NumViewpoints]]
    /\ instr_encoding = [j \in Batch |-> Encoding(1)]
    /\ TeacherIdle
    /\ ShaperIdle
    /\ LoadIdle
    /\ TestIdle
    /\ VisualIdle
    /\ cf_pc = "run"
    /\ cf_logits \in [Passes -> [Directions -> LogitUnits]]
    /\ cf_out = <<>>

\* agent.py:372-373 for the logits of one instance
confidence_call ==
    /\ cf_pc = "run"
    /\ cf_out' = calculate_confidence(cf_logits)
    /\ cf_pc' = "returned"
    /\ UNCHANGED <<rolloutVars, teacherVars, shaperVars, loadVars, testVars, visualVars,
                   cf_logits>>

ConfNext == confidence_call

ConfSpec == ConfInit /\ [][ConfNext]_vars

\* =====================================================================
\* Properties
\* =====================================================================
InRollout == pc \in {"loop", "post", "returned", "aborted"}
Path(i) == traj[i].path
Conf(i) == traj[i].confidence_scores

\* C1: in every feedback mode the action index selected from the logits is
\* below candidate_leng[i] for every instance: a padded slot never wins.
C1_SelectedIndexIsValid ==
    a_t # <<>> => \A i \in Batch : a_t[i] < candidate_leng[i]

\* C2: once monte_carlo_forward has returned, the dropout modules are back
\* in evaluation mode, so the canonical forward pass of an argmax (test)
\* rollout runs with dropout inactive.
C2_DropoutRestoredAfterSampling ==
    (feedback = "argmax" /\ mc_passes > 0) =>
        (~dropout_training /\ fwd_dropout = "eval")

\* C3: with feedback 'teacher' the index chosen at a step for every instance
\* that has not ended is the label of _teacher_action for the observation
\* the step started from.
C3_TeacherForcing ==
    [][(pc = "loop" /\ feedback = "teacher" /\ (t' = t + 1 \/ pc' = "aborted")) =>
          \A i \in Batch :
             ~ended[i] => a_t'[i] = TeacherLabel(perm_obs[i], ended[i])]_vars

\* C4: within a rollout, ended[i] never goes back from true to false.
C4_EndedMonotonic ==
    [][\A i \in Batch : (pc \in {"loop", "post"} /\ ended[i]) => ended'[i]]_vars

\* a step was executed after an instance had ended, and the instance is still ended
C4_Witness ==
    /\ pc \in {"loop", "post", "returned"}
    /\ \E i \in Batch : ended[i] /\ stopped_at[i] >= 0 /\ stopped_at[i] + 1 < t

\* C5: with RL enabled, after each executed step hidden_states,
\* policy_log_probs, rewards and masks hold one entry per elapsed step.
C5_HistoriesAligned ==
    (pc \in {"loop", "post"} /\ train_rl) =>
        /\ Len(rewards) = t
        /\ Len(masks) = t
        /\ Len(hidden_states) = t
        /\ Len(policy_log_probs) = t

\* C6: the permutation computed by _sort_batch is used unchanged for the
\* whole rollout: position i of perm_obs and traj is the instruction of
\* simulator perm_idx[i], the path of position i follows that simulator,
\* and position i's action is executed on simulator perm_idx[i] only.
C6_Aligned ==
    /\ perm_idx \in sort_batch(get_obs(sim_vp, item, instr_encoding))
    /\ \A i \in Batch :
          /\ perm_obs[i].instr_id = traj[i].instr_id
          /\ traj[i].instr_id = perm_idx[i]
          /\ Path(i)[Len(Path(i))] = sim_vp[perm_idx[i]]
    /\ \A c \in sim_calls : c[2] = perm_idx[c[1]]

C6_PermutationFixed ==
    [][(InRollout' => C6_Aligned') /\ (InRollout => perm_idx' = perm_idx)]_vars

\* an action was executed under a permutation that is not the identity
C6_Witness ==
    /\ InRollout
    /\ \E i \in Batch : perm_idx[i] # i
    /\ sim_calls # {}

\* C7: an instance that is ended at the start of a step gets the action -1
\* whatever its logits select, no simulator call is made for it, and its
\* path is never extended again.
C7_EndedFrozen ==
    [][\A i \in Batch :
         (pc \in {"loop", "post"} /\ ended[i]) =>
            /\ traj'[i].path = traj[i].path
            /\ (pc = "loop" /\ (t' = t + 1 \/ pc' = "aborted")) =>
                  /\ cpu_a_t'[i] = -1
                  /\ \A c \in sim_calls' : c[1] # i]_vars

\* an ended instance whose logits selected a move, in a step that moved another one
C7_Witness ==
    /\ pc \in {"loop", "post", "returned"}
    /\ \E i \in Batch :
          /\ ended[i] /\ stopped_at[i] >= 0 /\ stopped_at[i] + 1 < t
          /\ a_t[i] < candidate_leng[i] - 1
          /\ cpu_a_t[i] = -1
    /\ sim_calls # {}

LoopExited == pc \in {"post", "returned"}
LatestStop == MaxOf(stopped_at, batch_size)

\* C8 as stated: the number of executed steps is
\* min(episode_len, 1 + the latest step at which any instance chose stop).
C8_StepCountAsStated ==
    (LoopExited /\ \E i \in Batch : stopped_at[i] >= 0) =>
        t = Min(episode_len, 1 + LatestStop)

C8_StepCount ==
    /\ t <= episode_len
    /\ pc = "loop" => (t < episode_len /\ ~AllEnded(ended))
    /\ LoopExited => t = (IF \A i \in Batch : stopped_at[i] >= 0
                            THEN 1 + LatestStop ELSE episode_len)
    /\ (LoopExited /\ \A i \in Batch : stopped_at[i] = 0) =>
          (t = 1 /\ \A i \in Batch : Len(Path(i)) = 1)

\* C8 (amended): rollout always terminates; step t is executed only if
\* t < episode_len and some instance had not ended after step t-1; when the
\* step loop completes, the number of executed steps is 1 + the latest stop
\* step if every instance chose stop and episode_len otherwise; when every
\* instance stops at step 0, one step is executed and every path has length 1.
C8_Terminates ==
    /\ []C8_StepCount
    /\ <>(pc \in {"returned", "aborted"})

\* every instance chose stop at step 0 and rollout returned
C8_Witness ==
    /\ pc = "returned"
    /\ t = 1
    /\ \A i \in Batch : stopped_at[i] = 0 /\ Len(Path(i)) = 1

\* C9: confidence_scores has one entry per executed step at whose start the
\* instance had not ended (the stop step included), so its length is
\* len(path) for an instance that stopped and len(path) - 1 otherwise; in
\* feedback modes other than argmax every entry is 0.
C9_ConfidencePerActiveStep ==
    pc \in {"loop", "post", "returned"} =>
        \A i \in Batch :
           /\ Len(Conf(i)) = (IF stopped_at[i] >= 0 THEN stopped_at[i] + 1 ELSE t)
           /\ Len(Conf(i)) = (IF ended[i] THEN Len(Path(i)) ELSE Len(Path(i)) - 1)
           /\ feedback # "argmax" => \A k \in 1..Len(Conf(i)) : Conf(i)[k] = 0

\* returned with one instance stopped at step 0 and another that ran to the horizon
C9_Witness ==
    /\ pc = "returned"
    /\ feedback # "argmax"
    /\ \E i, j \in Batch :
          /\ stopped_at[i] = 0 /\ Len(Conf(i)) = 1
          /\ ~ended[j] /\ Len(Conf(j)) = episode_len

Matches(ob) == {k \in 0..(Len(ob.candidate) - 1) : ob.candidate[k + 1] = ob.teacher}

\* C10: _teacher_action gives an ended instance the ignore label; otherwise
\* the index of the first candidate whose viewpointId is the teacher
\* viewpoint; otherwise, when the teacher viewpoint is the current one, the
\* stop index len(candidates); otherwise it fails with an assertion and
\* assigns no label.
C10_TeacherAction ==
    (ta_i > 1 \/ ta_pc = "failed") =>
        /\ Len(ta_a) = ta_i - 1
        /\ IF ta_e
             THEN ta_pc # "failed" /\ ta_a[ta_i - 1] = ignoreid
           ELSE IF Matches(ta_ob) # {}
             THEN /\ ta_pc # "failed"
                  /\ ta_a[ta_i - 1] \in Matches(ta_ob)
                  /\ \A k \in Matches(ta_ob) : ta_a[ta_i - 1] <= k
           ELSE IF ta_ob.teacher = ta_ob.viewpoint
             THEN ta_pc # "failed" /\ ta_a[ta_i - 1] = Len(ta_ob.candidate)
           ELSE ta_pc = "failed"

\* returned for a batch whose first instance was ended and whose last one
\* has the teacher viewpoint twice among its candidates
C10_Witness ==
    /\ ta_pc = "returned"
    /\ ta_a[1] = ignoreid
    /\ ~ta_e
    /\ ta_ob.candidate = <<ta_ob.teacher, ta_ob.teacher>>
    /\ ta_a[batch_size] = 0

\* the goal distance of position i as the environment reports it for the
\* viewpoint its simulator stands on
DistanceNow(i) == Distance(sim_vp[perm_idx[i]], item[perm_idx[i]].goal)

EnvFailures == {"IndexError", "AssertionError"}

\* C11: with RL enabled, when the actions of a step were executed and some
\* instance that had not ended moved (its action is not stop) to a viewpoint
\* whose goal distance equals the distance before the move, the rollout
\* aborts with the NameError of the reward shaper: nothing is appended to
\* rewards or masks for the step and rollout does not return.
C11_ZeroDeltaAborts ==
    [][(/\ pc = "loop" /\ train_rl
        /\ (t' = t + 1 \/ pc' = "aborted")
        /\ err' \notin EnvFailures
        /\ \E i \in Batch :
              ~ended[i] /\ cpu_a_t'[i] # -1 /\ DistanceNow(i)' = last_dist[i])
       => /\ pc' = "aborted"
          /\ err' = "NameError"
          /\ rewards' = rewards
          /\ masks' = masks
          /\ t' = t]_vars

\* a rollout aborted by a move that kept the goal distance, in a step in
\* which another instance moved closer to its goal; no reward was appended
C11_Witness ==
    /\ pc = "aborted"
    /\ err = "NameError"
    /\ rewards = <<>>
    /\ \E i, j \in Batch :
          /\ ~ended[i] /\ cpu_a_t[i] # -1 /\ Len(Path(i)) = 2
          /\ DistanceNow(i) = last_dist[i]
          /\ cpu_a_t[j] # -1 /\ DistanceNow(j) < last_dist[j]

\* the reference of the claim, in tenths
RefReward(in) ==
    IF in.ended THEN 0
    ELSE IF in.action = -1 THEN (IF in.dist < 30 THEN 20 + 2 * in.ndtw ELSE -20)
    ELSE (IF in.dist < in.last_dist THEN 10 ELSE -10)
         + (in.ndtw - in.last_ndtw)
         - (IF in.last_dist <= 10 /\ in.dist > in.last_dist
              THEN 2 * (10 - in.last_dist) ELSE 0)

RefMask(in) == IF in.ended THEN 0 ELSE 1

\* C12: the (reward, mask) pair the reward block appends for an instance is
\* (0, 0) if the instance was ended before the step; otherwise the mask is 1
\* and the reward is 2 + 2*nDTW for a stop within distance 3 of the goal,
\* -2 for any other stop, and for a move +1 or -1 (distance decreased or
\* increased) plus the nDTW gain, minus 2*(1 - distance_prev) when
\* distance_prev <= 1 and the distance increased.  The step on which the
\* instance chooses stop gets mask 1 and leaves the instance ended.
C12_RewardReference ==
    rs_pc = "appended" =>
        /\ rs_out.rewards = <<RefReward(rs_in)>>
        /\ rs_out.masks = <<RefMask(rs_in)>>
        /\ (~rs_in.ended /\ rs_in.action = -1) => (rs_out.masks = <<1>> /\ rs_out.ended)

\* the move from distance 4.0 to 2.5 with nDTW 0.5 -> 0.7 is rewarded 1.2
C12_Witness ==
    /\ rs_pc = "appended"
    /\ ~rs_in.ended /\ rs_in.action # -1
    /\ rs_in.last_dist = 40 /\ rs_in.dist = 25
    /\ rs_in.last_ndtw = 5 /\ rs_in.ndtw = 7
    /\ rs_out.rewards = <<12>> /\ rs_out.masks = <<1>>

\* C13: in a rollout called with an imitation weight (train_ml is not None),
\* in teacher mode as in argmax mode, every executed step adds one
\* cross-entropy term (against the teacher labels) to the imitation loss,
\* and the rollout completes by adding imitation_loss * w / batch_size to
\* the agent's loss and returning: it never fails on the loss it accumulated.
C13_ImitationLoss ==
    (train_ml # None /\ pc \in {"loop", "post", "returned", "aborted"}) =>
        /\ pc \in {"loop", "post", "returned"} => Len(ml_loss) = t
        /\ pc = "returned" =>
              (loss # <<>> /\ loss[Len(loss)] = [weight |-> train_ml, terms |-> ml_loss])
        /\ err # "AttributeError"

\* C14: load never fails on a checkpoint whose key set differs from the
\* model's, whether the checkpoint lacks keys of the model or has keys the
\* model lacks; it prints the notice for exactly the components whose key
\* sets differ, keys present in both take the checkpoint's value, keys
\* missing from the checkpoint keep the model's value, and the optimizer
\* state is restored exactly when loadOptim is set.
C14_LoadTolerant ==
    /\ ld_pc # "failed"
    /\ ld_pc = "returned" =>
          \A c \in Components :
             /\ (c \in ld_notices) <=> (DOMAIN ld_params[c] # DOMAIN ld_ckpt[c])
             /\ \A k \in DOMAIN ld_params[c] :
                   ld_params[c][k] = (IF k \in DOMAIN ld_ckpt[c]
                                        THEN "checkpoint" ELSE "model")
             /\ ld_optim[c] = (IF ld_loadOptim THEN "checkpoint" ELSE "own")

FullRound == ts_iters = <<>>

\* C15: BaseAgent.test with iters=None keeps calling rollout while no batch
\* held an instr_id rolled out before, and returns right after the first
\* batch that did; results then holds every instr_id that was rolled out,
\* with the outcome of its first rollout.  With iters=n it returns after
\* exactly n rollouts and results holds the latest outcome of every
\* instr_id rolled out.
C15_TestLoop ==
    /\ (ts_pc = "loop" /\ FullRound) => (ts_repeats = 0 /\ ~ts_looped)
    /\ (ts_pc = "returned" /\ FullRound) =>
          /\ ts_repeats = 1
          /\ ts_results = ts_first
    /\ (ts_pc = "returned" /\ ~FullRound) =>
          /\ ts_i = ts_iters[1]
          /\ ts_results = ts_last
    /\ (ts_pc = "loop" /\ ~FullRound) => ts_i <= ts_iters[1]

\* a full round returned with every instruction in results, one of them
\* rolled out a second time with another outcome that was not stored
C15_Witness ==
    /\ ts_pc = "returned"
    /\ FullRound
    /\ DOMAIN ts_results = 1..NumInstr
    /\ \E id \in DOMAIN ts_results : ts_last[id] # ts_first[id] /\ ts_results[id] = ts_first[id]

\* C16: every stochastic pass of monte_carlo_forward and the canonical
\* forward pass that follows receive cand_feats exactly as get_input_feat
\* assembled it, and the caller's tensor is unchanged after every pass.
C16_CandFeatsUnchanged ==
    vs_pc \in {"mc_call", "mc_loop", "forward", "done"} =>
        /\ \A k \in 1..Len(vs_received) : vs_received[k] = AssembledFeat
        /\ vs_cand = AssembledFeat

RECURSIVE Pow(_, _)
Pow(b, e) == IF e = 0 THEN 1 ELSE b * Pow(b, e - 1)

RECURSIVE DiscountedSum(_, _, _, _)
DiscountedSum(rs, i, h, k) ==
    IF k > Len(rs) THEN 0
    ELSE rs[k][i] * Pow(GammaNum, k - h) * Pow(GammaDen, Len(rs) + 1 - k)
         + DiscountedSum(rs, i, h, k + 1)

\* sum over k >= h of gamma^(k-h) * rewards[k][i] plus gamma^(T+1-h) * B
\* (history steps 1..T), as a fraction of tenths
RefReturn(rs, i, h, B) ==
    [num |-> DiscountedSum(rs, i, h, h) + B * Pow(GammaNum, Len(rs) + 1 - h),
     den |-> Pow(GammaDen, Len(rs) + 1 - h)]

SameFraction(a, b) == a.num * b.den = b.num * a.den

\* C17: with RL enabled, a rollout whose step loop has completed runs the
\* A2C trainer, and the return the trainer uses for instance i at every
\* history step is the discounted sum of the rewards from that step on plus
\* the discounted bootstrap: the critic's value of the final state if the
\* instance has not ended, 0 if it has.
C17_A2CReturns ==
    [][(pc = "post" /\ train_rl) =>
          /\ pc' = "tail"
          /\ Len(returns') = Len(rewards)
          /\ \E B \in [Batch -> CriticVals] :
                \A h \in 1..Len(rewards), i \in Batch :
                   SameFraction(returns'[h][i],
                                RefReturn(rewards, i, h, IF ended[i] THEN 0 ELSE B[i]))]_vars

FracSame(a, b) == a.num * b.den = b.num * a.den

FracAdd(a, b) == [num |-> a.num * b.den + b.num * a.den, den |-> a.den * b.den]

RECURSIVE FracSum(_, _)
FracSum(f, n) == IF n = 0 THEN [num |-> 0, den |-> 1] ELSE FracAdd(f[n], FracSum(f, n - 1))

\* p of the claim: the average over the passes of each pass's softmax
MeanOfSoftmax(logits) ==
    [c \in Directions |->
        LET total == FracSum([q \in Passes |-> softmax(logits[q])[c]], EnsembleSize)
        IN  [num |-> total.num, den |-> total.den * EnsembleSize]]

\* the mean over the directions of the across-ensemble variance of the logits
MeanVariance(logits) ==
    LET avg(c) == FracSum([q \in Passes |-> [num |-> logits[q][c], den |-> 1]],
                          EnsembleSize).num
        \* EnsembleSize^2 * (EnsembleSize - 1) * variance of direction c
        scaled(c) == SumTo([q \in Passes |->
                              (EnsembleSize * logits[q][c] - avg(c))
                              * (EnsembleSize * logits[q][c] - avg(c))], EnsembleSize)
    IN  [num |-> SumTo([c \in Directions |-> scaled(c)], NumDirections),
         den |-> EnsembleSize * EnsembleSize * (EnsembleSize - 1) * NumDirections]

\* C18: calculate_confidence combines three terms: the entropy term and the
\* agreement term max(p) are computed from p = the average over the
\* ensemble passes of each pass's softmax distribution, over numCandidates
\* directions, and the third term is 1 minus the mean over the candidates
\* of the across-ensemble variance of the logits.
C18_ConfidenceTerms ==
    cf_pc = "returned" =>
        /\ \A c \in Directions :
              FracSame(cf_out.entropy_of[c], MeanOfSoftmax(cf_logits)[c])
        /\ cf_out.directions = NumDirections
        /\ FracSame(cf_out.agreement, MaxFrac(MeanOfSoftmax(cf_logits), NumDirections))
        /\ FracSame(cf_out.uncertainty, MeanVariance(cf_logits))

====
